---- MODULE Spec2Model ----
(***************************************************************************)
(* EthChainManager (relayer/chainpy/eth/managers/ethchainmanager.py): the  *)
(* nonce counter of one account, its lock, and the transaction dispatch    *)
(* methods built on it, run by several caller threads.                     *)
(*                                                                         *)
(* Every Python statement that touches shared state is one step.  The      *)
(* augmented assignments `self.__nonce += 1` and `self.__nonce -= 1` are a *)
(* load followed by a store, so another thread may run between the two.    *)
(***************************************************************************)
EXTENDS Integers, Sequences, FiniteSets, TLC

\* ---- bounds of the model ------------------------------------------------
NumThreads == 2
MaxCalls == 2
MaxInitNonce == 1
MaxChainNonce == 1

Threads == 1..NumThreads
\* what eth_get_user_nonce may report at construction / at a reset
InitNonces == 0..MaxInitNonce
ChainNonces == 0..MaxChainNonce

\* ---- values -------------------------------------------------------------
ZeroHash == "zero"          \* EthHashBytes.zero()
RealHash == "real"          \* the hash send_tx returns
NoHash == "none"
None == << >>               \* Python None / an unlocked Lock
Some(x) == << x >>

NoResult == [kind |-> "none", value |-> None, hash |-> NoHash]
Returned(v, h) == [kind |-> "returned", value |-> v, hash |-> h]
Raised == [kind |-> "raised", value |-> None, hash |-> NoHash]

NoOp == [name |-> "none", resend |-> FALSE]
Op(n, r) == [name |-> n, resend |-> r]
\* a build or a call, with its contract_name argument
DispatchOp(n, c) == [name |-> n, resend |-> FALSE, contract_name |-> c]

\* an exception of class e leaves the method
RaisedWith(e) == [kind |-> "raised", value |-> None, hash |-> NoHash, error |-> e]

\* self.__contracts_dict after construction, and the names callers pass
Registered == { "socket" }
ContractNames == { "socket", "vault" }

VARIABLES
  nonce,      \* self.__nonce
  lock,       \* self.__nonce_lock: None when free, Some(t) when t holds it
  pc,         \* each thread's position
  op,         \* the method each thread is running (or ran last)
  local,      \* issue_nonce's local variable `nonce`
  tmp,        \* the value loaded by `+= 1` / `-= 1`, or returned by the reader
  tx,         \* each thread's transaction descriptor: [nonce, fee]
  contract,   \* the local `contract` of the running build / call
  sendable,   \* is_sendable of the running send_transaction
  result,     \* what the last call returned or raised
  \* history variables, read only by the properties
  v0,         \* the counter after construction
  calls,      \* number of calls started
  cur,        \* the running (or last) call of each thread: <<t, k>>, its k-th
  pre,        \* counter and descriptor nonce when the call started
  quiet,      \* no other thread has stored the counter since the call started
  issued,     \* <<call, value>> for every value issue_nonce returned
  sent,       \* every descriptor handed to send_tx
  usedReset,  \* a reset_nonce call has started
  usedReturn, \* a return_nonce call has started
  sinceReset, \* Some(c): reset stored the reported c, no other store since
  seen,       \* sinceReset as it was when the running issue_nonce read
  afterReset, \* the last reset's stored value and the issues completed since
  called      \* every call handed to call_tx

vars == << nonce, lock, pc, op, local, tmp, tx, sendable, result,
           v0, calls, cur, pre, quiet, issued, sent, usedReset, usedReturn,
           sinceReset, seen, contract, afterReset, called >>

\* written only at a call's start
started == << v0, calls, cur, pre, usedReset, usedReturn >>

\* what the steps of the ledger, of send and of resend leave alone
ghost == << started, seen, contract, afterReset, called >>

\* no reset_nonce has stored yet
NoReset == [c |-> None, got |-> {}, n |-> 0, clean |-> TRUE]

\* ---- construction -------------------------------------------------------
Init ==
  /\ nonce \in InitNonces
  /\ v0 = nonce
  /\ lock = None
  /\ pc = [t \in Threads |-> "idle"]
  /\ op = [t \in Threads |-> NoOp]
  /\ local = [t \in Threads |-> 0]
  /\ tmp = [t \in Threads |-> 0]
  /\ tx = [t \in Threads |-> [nonce |-> None, fee |-> 0]]
  /\ sendable = [t \in Threads |-> FALSE]
  /\ result = [t \in Threads |-> NoResult]
  /\ calls = 0
  /\ cur = [t \in Threads |-> << t, 0 >>]
  /\ pre = [t \in Threads |-> [nonce |-> nonce, txNonce |-> None]]
  /\ quiet = [t \in Threads |-> TRUE]
  /\ issued = {}
  /\ sent = {}
  /\ usedReset = FALSE
  /\ usedReturn = FALSE
  /\ sinceReset = None
  /\ seen = [t \in Threads |-> None]
  /\ contract = [t \in Threads |-> None]
  /\ afterReset = NoReset
  /\ called = {}

\* ---- a caller enters a method ------------------------------------------
EnterWithin(t, o, first, budget) ==
  /\ pc[t] = "idle"
  /\ calls < budget
  /\ pc' = [pc EXCEPT ![t] = first]
  /\ op' = [op EXCEPT ![t] = o]
  /\ result' = [result EXCEPT ![t] = NoResult]
  /\ sendable' = [sendable EXCEPT ![t] = FALSE]
  /\ calls' = calls + 1
  /\ cur' = [cur EXCEPT ![t] = << t, cur[t][2] + 1 >>]
  /\ pre' = [pre EXCEPT ![t] = [nonce |-> nonce, txNonce |-> tx[t].nonce]]
  /\ quiet' = [quiet EXCEPT ![t] = TRUE]
  /\ usedReset' = (usedReset \/ o.name = "reset_nonce")
  /\ usedReturn' = (usedReturn \/ o.name = "return_nonce")
  /\ seen' = [seen EXCEPT ![t] = None]
  /\ contract' = [contract EXCEPT ![t] = None]
  /\ UNCHANGED << nonce, lock, local, tmp, tx, v0, issued, sent, sinceReset,
                  afterReset, called >>

Enter(t, o, first) == EnterWithin(t, o, first, MaxCalls)

\* a store to the counter by thread t ends the quiet period of the others
Disturb(t) == [u \in Threads |-> IF u = t THEN quiet[u] ELSE FALSE]

\* the method returns: its locals go away
Leave(t, r) ==
  /\ pc' = [pc EXCEPT ![t] = "idle"]
  /\ result' = [result EXCEPT ![t] = r]
  /\ local' = [local EXCEPT ![t] = 0]
  /\ tmp' = [tmp EXCEPT ![t] = 0]

\* ---- issue_nonce --------------------------------------------------------
CallIssue(t) == Enter(t, Op("issue_nonce", FALSE), "issue_acquire")

\* a variant that takes the lock without waiting for it to be free
IssueAcquireNoWait(t) ==
  /\ pc[t] = "issue_acquire"
  /\ lock' = Some(t)
  /\ pc' = [pc EXCEPT ![t] = "issue_read"]
  /\ UNCHANGED << nonce, op, local, tmp, tx, sendable, result, quiet, issued,
                  sent, sinceReset >>
  /\ UNCHANGED ghost

IssueAcquire(t) ==
  /\ pc[t] = "issue_acquire"
  /\ lock = None
  /\ lock' = Some(t)
  /\ pc' = [pc EXCEPT ![t] = "issue_read"]
  /\ UNCHANGED << nonce, op, local, tmp, tx, sendable, result, quiet, issued,
                  sent, sinceReset >>
  /\ UNCHANGED ghost

IssueRead(t) ==
  /\ pc[t] = "issue_read"
  /\ local' = [local EXCEPT ![t] = nonce]
  /\ seen' = [seen EXCEPT ![t] = sinceReset]
  /\ pc' = [pc EXCEPT ![t] = "issue_load"]
  /\ UNCHANGED << nonce, lock, op, tmp, tx, sendable, result, quiet, issued,
                  sent, sinceReset >>
  /\ UNCHANGED << started, contract, afterReset, called >>

IssueLoad(t) ==
  /\ pc[t] = "issue_load"
  /\ tmp' = [tmp EXCEPT ![t] = nonce]
  /\ pc' = [pc EXCEPT ![t] = "issue_store"]
  /\ UNCHANGED << nonce, lock, op, local, tx, sendable, result, quiet, issued,
                  sent, sinceReset >>
  /\ UNCHANGED ghost

\* a variant that stores the counter back without the increment
IssueStoreSame(t) ==
  /\ pc[t] = "issue_store"
  /\ nonce' = tmp[t]
  /\ pc' = [pc EXCEPT ![t] = "issue_release"]
  /\ quiet' = Disturb(t)
  /\ sinceReset' = None
  /\ UNCHANGED << lock, op, local, tmp, tx, sendable, result, issued, sent >>
  /\ UNCHANGED ghost

IssueStore(t) ==
  /\ pc[t] = "issue_store"
  /\ nonce' = tmp[t] + 1
  /\ pc' = [pc EXCEPT ![t] = "issue_release"]
  /\ quiet' = Disturb(t)
  /\ sinceReset' = None
  /\ UNCHANGED << lock, op, local, tmp, tx, sendable, result, issued, sent >>
  /\ UNCHANGED ghost

\* release, then `return nonce`: to the caller, or into send_transaction
IssueRelease(t) ==
  /\ pc[t] = "issue_release"
  /\ lock' = None
  /\ issued' = issued \cup { << cur[t], local[t] >> }
  /\ IF op[t].name = "issue_nonce"
       THEN Leave(t, Returned(Some(local[t]), NoHash))
       ELSE /\ pc' = [pc EXCEPT ![t] = "send_stamp"]
            /\ UNCHANGED << result, local, tmp >>
  /\ afterReset' = IF afterReset.c = None THEN afterReset
                   ELSE [afterReset EXCEPT !.got = @ \cup { local[t] },
                                           !.n = @ + 1]
  /\ UNCHANGED << nonce, op, tx, sendable, quiet, sent, sinceReset >>
  /\ UNCHANGED << started, seen, contract, called >>

\* ---- reset_nonce --------------------------------------------------------
CallReset(t) == Enter(t, Op("reset_nonce", FALSE), "reset_acquire")

\* a variant that takes the lock without waiting for it to be free
ResetAcquireNoWait(t) ==
  /\ pc[t] = "reset_acquire"
  /\ lock' = Some(t)
  /\ pc' = [pc EXCEPT ![t] = "reset_rpc"]
  /\ UNCHANGED << nonce, op, local, tmp, tx, sendable, result, quiet, issued,
                  sent, sinceReset >>
  /\ UNCHANGED ghost

ResetAcquire(t) ==
  /\ pc[t] = "reset_acquire"
  /\ lock = None
  /\ lock' = Some(t)
  /\ pc' = [pc EXCEPT ![t] = "reset_rpc"]
  /\ UNCHANGED << nonce, op, local, tmp, tx, sendable, result, quiet, issued,
                  sent, sinceReset >>
  /\ UNCHANGED ghost

\* eth_get_user_nonce(address): the reader reports a value, or the call
\* raises; nothing catches it, so reset_nonce ends with the lock still held
ResetRpc(t) ==
  /\ pc[t] = "reset_rpc"
  /\ \/ \E c \in ChainNonces :
          /\ tmp' = [tmp EXCEPT ![t] = c]
          /\ pc' = [pc EXCEPT ![t] = "reset_store"]
          /\ UNCHANGED << result, local >>
     \/ Leave(t, Raised)
  /\ UNCHANGED << nonce, lock, op, tx, sendable, quiet, issued, sent,
                  sinceReset >>
  /\ UNCHANGED ghost

\* a variant that never lowers the counter
ResetStoreMax(t) ==
  /\ pc[t] = "reset_store"
  /\ nonce' = IF tmp[t] > nonce THEN tmp[t] ELSE nonce
  /\ sinceReset' = Some(tmp[t])
  /\ quiet' = Disturb(t)
  /\ pc' = [pc EXCEPT ![t] = "reset_release"]
  /\ afterReset' = [c |-> Some(tmp[t]), got |-> {}, n |-> 0, clean |-> TRUE]
  /\ UNCHANGED << lock, op, local, tmp, tx, sendable, result, issued, sent >>
  /\ UNCHANGED << started, seen, contract, called >>

ResetStore(t) ==
  /\ pc[t] = "reset_store"
  /\ nonce' = tmp[t]
  /\ sinceReset' = Some(tmp[t])
  /\ quiet' = Disturb(t)
  /\ pc' = [pc EXCEPT ![t] = "reset_release"]
  /\ afterReset' = [c |-> Some(tmp[t]), got |-> {}, n |-> 0, clean |-> TRUE]
  /\ UNCHANGED << lock, op, local, tmp, tx, sendable, result, issued, sent >>
  /\ UNCHANGED << started, seen, contract, called >>

ResetRelease(t) ==
  /\ pc[t] = "reset_release"
  /\ lock' = None
  /\ Leave(t, Returned(None, NoHash))
  /\ UNCHANGED << nonce, op, tx, sendable, quiet, issued, sent, sinceReset >>
  /\ UNCHANGED ghost

\* ---- return_nonce -------------------------------------------------------
CallReturn(t) == Enter(t, Op("return_nonce", FALSE), "return_load")

ReturnLoad(t) ==
  /\ pc[t] = "return_load"
  /\ tmp' = [tmp EXCEPT ![t] = nonce]
  /\ pc' = [pc EXCEPT ![t] = "return_store"]
  /\ UNCHANGED << nonce, lock, op, local, tx, sendable, result, quiet, issued,
                  sent, sinceReset >>
  /\ UNCHANGED ghost

ReturnStore(t) ==
  /\ pc[t] = "return_store"
  /\ nonce' = tmp[t] - 1
  /\ sinceReset' = None
  /\ quiet' = Disturb(t)
  /\ afterReset' = [afterReset EXCEPT !.clean = FALSE]
  /\ Leave(t, Returned(None, NoHash))
  /\ UNCHANGED << lock, op, tx, sendable, issued, sent >>
  /\ UNCHANGED << started, seen, contract, called >>

\* ---- collaborators (txhandler, transaction types) -----------------------
\* set_gas_limit_and_fee(tx, account, boost, resend, gas_limit_multiplier):
\* reports whether the tx is sendable and returns the descriptor it was given
\* with gas limit and fee fields filled in from the current estimate; the
\* nonce field is preserved.  The descriptor's `fee` here counts the fee
\* bound's raises by boost_upper_bound, which the estimate does not change.
SetGasLimitAndFee(d, resend) == d

\* tx.boost_upper_bound(): raises the fee bound, leaves the nonce field alone
BoostUpperBound(d) == [d EXCEPT !.fee = d.fee + 1]

\* send_tx(tx, account): signs and submits; a hash, or an exception
SendTxOutcomes == { "hash", "raise" }

\* one hand-over to send_tx; `try` numbers the hand-overs of one call
Submission(t, via, out) ==
  [call |-> cur[t], nonce |-> tx[t].nonce, via |-> via, ok |-> (out = "hash"),
   try |-> Cardinality({ s \in sent : s.call = cur[t] }) + 1]

\* ---- send_transaction ---------------------------------------------------
CallSend(t, resend) ==
  Enter(t, Op("send_transaction", resend), "send_resolve")

\* a variant that takes a nonce before it looks at is_sendable
SendResolveIssueFirst(t) ==
  /\ pc[t] = "send_resolve"
  /\ \E s \in BOOLEAN :
       LET d == SetGasLimitAndFee(tx[t], op[t].resend) IN
       /\ sendable' = [sendable EXCEPT ![t] = s]
       /\ tx' = [tx EXCEPT ![t] = d]
       /\ IF s
            THEN /\ pc' = [pc EXCEPT ![t] = "issue_acquire"]
                 /\ UNCHANGED << result, local, tmp, nonce >>
            ELSE /\ nonce' = nonce + 1
                 /\ Leave(t, Returned(d.nonce, ZeroHash))
  /\ UNCHANGED << lock, op, quiet, issued, sent, sinceReset >>
  /\ UNCHANGED ghost

SendResolve(t) ==
  /\ pc[t] = "send_resolve"
  /\ \E s \in BOOLEAN :
       LET d == SetGasLimitAndFee(tx[t], op[t].resend) IN
       /\ sendable' = [sendable EXCEPT ![t] = s]
       /\ tx' = [tx EXCEPT ![t] = d]
       /\ IF s
            THEN /\ pc' = [pc EXCEPT ![t] = "issue_acquire"]
                 /\ UNCHANGED << result, local, tmp >>
            ELSE Leave(t, Returned(d.nonce, ZeroHash))
  /\ UNCHANGED << nonce, lock, op, quiet, issued, sent, sinceReset >>
  /\ UNCHANGED ghost

\* tx_with_fee.nonce = <the value issue_nonce returned>
SendStamp(t) ==
  /\ pc[t] = "send_stamp"
  /\ tx' = [tx EXCEPT ![t].nonce = Some(local[t])]
  /\ pc' = [pc EXCEPT ![t] = "send_submit"]
  /\ UNCHANGED << nonce, lock, op, local, tmp, sendable, result, quiet,
                  issued, sent, sinceReset >>
  /\ UNCHANGED ghost

\* a variant whose handler gives the nonce back (self.__nonce -= 1)
SendSubmitRollback(t) ==
  /\ pc[t] = "send_submit"
  /\ \E out \in SendTxOutcomes :
       /\ sent' = sent \cup { Submission(t, "send", out) }
       /\ nonce' = IF out = "hash" THEN nonce ELSE nonce - 1
       /\ Leave(t, Returned(tx[t].nonce,
                            IF out = "hash" THEN RealHash ELSE ZeroHash))
  /\ UNCHANGED << lock, op, tx, sendable, quiet, issued, sinceReset >>
  /\ UNCHANGED ghost

\* a variant without the try/except: the exception leaves the method
SendSubmitNoCatch(t) ==
  /\ pc[t] = "send_submit"
  /\ \E out \in SendTxOutcomes :
       /\ sent' = sent \cup { Submission(t, "send", out) }
       /\ Leave(t, IF out = "hash" THEN Returned(tx[t].nonce, RealHash)
                                   ELSE Raised)
  /\ UNCHANGED << nonce, lock, op, tx, sendable, quiet, issued, sinceReset >>
  /\ UNCHANGED ghost

\* a variant whose handler submits once more after a failure
SendSubmitRetry(t) ==
  /\ pc[t] = "send_submit"
  /\ \E out \in SendTxOutcomes :
       /\ sent' = sent \cup
                    IF out = "hash"
                      THEN { Submission(t, "send", out) }
                      ELSE { Submission(t, "send", out),
                             [Submission(t, "send", out) EXCEPT !.try = @ + 1] }
       /\ Leave(t, Returned(tx[t].nonce,
                            IF out = "hash" THEN RealHash ELSE ZeroHash))
  /\ UNCHANGED << nonce, lock, op, tx, sendable, quiet, issued, sinceReset >>
  /\ UNCHANGED ghost

\* try: send_tx(...)  except Exception: tx_hash = zero;  then return
SendSubmit(t) ==
  /\ pc[t] = "send_submit"
  /\ \E out \in SendTxOutcomes :
       /\ sent' = sent \cup { Submission(t, "send", out) }
       /\ Leave(t, Returned(tx[t].nonce,
                            IF out = "hash" THEN RealHash ELSE ZeroHash))
  /\ UNCHANGED << nonce, lock, op, tx, sendable, quiet, issued, sinceReset >>
  /\ UNCHANGED ghost

\* ---- resend_transaction -------------------------------------------------
CallResend(t) ==
  Enter(t, Op("resend_transaction", FALSE), "resend_boost")

ResendBoost(t) ==
  /\ pc[t] = "resend_boost"
  /\ tx' = [tx EXCEPT ![t] = BoostUpperBound(tx[t])]
  /\ pc' = [pc EXCEPT ![t] = "resend_submit"]
  /\ UNCHANGED << nonce, lock, op, local, tmp, sendable, result, quiet,
                  issued, sent, sinceReset >>
  /\ UNCHANGED ghost

\* a variant that stamps a fresh nonce from the counter before resubmitting
ResendSubmitReissue(t) ==
  /\ pc[t] = "resend_submit"
  /\ \E out \in SendTxOutcomes :
       /\ sent' = sent \cup { [Submission(t, "resend", out)
                                 EXCEPT !.nonce = Some(nonce)] }
       /\ tx' = [tx EXCEPT ![t].nonce = Some(nonce)]
       /\ nonce' = nonce + 1
       /\ Leave(t, IF out = "hash" THEN Returned(Some(nonce), RealHash)
                                   ELSE Raised)
  /\ UNCHANGED << lock, op, sendable, quiet, issued, sinceReset >>
  /\ UNCHANGED ghost

\* send_tx(...) with no handler around it: an exception leaves the method
ResendSubmit(t) ==
  /\ pc[t] = "resend_submit"
  /\ \E out \in SendTxOutcomes :
       /\ sent' = sent \cup { Submission(t, "resend", out) }
       /\ Leave(t, IF out = "hash" THEN Returned(tx[t].nonce, RealHash)
                                   ELSE Raised)
  /\ UNCHANGED << nonce, lock, op, tx, sendable, quiet, issued, sinceReset >>
  /\ UNCHANGED ghost

\* ---- collaborators of build and call (contract ABI, rpc, txhandler) ------
\* get_method(name).encode_input_data(params): the payload, or an exception
EncodeOutcomes == { "data", "raise" }

\* call_tx(call_tx): the node's answer, or an exception
CallTxOutcomes == { "result", "raise" }

\* build_tx_including_fee_upper_bound(addr, data, value): a new descriptor
\* with fee bounds set and no nonce
BuildTxIncludingFeeUpperBound == [nonce |-> None, fee |-> 0]

\* ---- get_contract_by_name, _get_contract_addr_and_build_tx_data ---------
\* dict.get: the contract object, or None for a name that is not a key
GetContractByName(name) == IF name \in Registered THEN Some(name) ELSE None

\* contract = self.get_contract_by_name(contract_name)
ResolveLookup(t) ==
  /\ pc[t] = "resolve_lookup"
  /\ contract' = [contract EXCEPT ![t] = GetContractByName(op[t].contract_name)]
  /\ pc' = [pc EXCEPT ![t] = "resolve_encode"]
  /\ UNCHANGED << nonce, lock, op, local, tmp, tx, sendable, result, quiet,
                  issued, sent, sinceReset >>
  /\ UNCHANGED << started, seen, afterReset, called >>

\* contract.address, then contract.abi.get_method(...).encode_input_data(...):
\* the attribute read on None raises AttributeError
ResolveEncode(t) ==
  /\ pc[t] = "resolve_encode"
  /\ IF contract[t] = None
       THEN Leave(t, RaisedWith("AttributeError"))
       ELSE \E out \in EncodeOutcomes :
              IF out = "raise"
                THEN Leave(t, RaisedWith("EncodingError"))
                ELSE /\ pc' = [pc EXCEPT ![t] =
                               IF op[t].name = "build_transaction"
                                 THEN "build_return" ELSE "call_rpc"]
                     /\ UNCHANGED << result, local, tmp >>
  /\ UNCHANGED << nonce, lock, op, tx, sendable, quiet, issued, sent,
                  sinceReset >>
  /\ UNCHANGED ghost

\* ---- build_transaction -------------------------------------------------
CallBuild(t) ==
  \E c \in ContractNames :
    Enter(t, DispatchOp("build_transaction", c), "resolve_lookup")

\* a variant that stamps the new descriptor with a nonce off the counter
BuildReturnStamped(t) ==
  /\ pc[t] = "build_return"
  /\ tx' = [tx EXCEPT ![t] = [BuildTxIncludingFeeUpperBound
                                EXCEPT !.nonce = Some(nonce)]]
  /\ nonce' = nonce + 1
  /\ Leave(t, Returned(Some(nonce), NoHash))
  /\ UNCHANGED << lock, op, sendable, quiet, issued, sent, sinceReset >>
  /\ UNCHANGED ghost

\* return self.build_tx_including_fee_upper_bound(...)
BuildReturn(t) ==
  /\ pc[t] = "build_return"
  /\ tx' = [tx EXCEPT ![t] = BuildTxIncludingFeeUpperBound]
  /\ Leave(t, Returned(BuildTxIncludingFeeUpperBound.nonce, NoHash))
  /\ UNCHANGED << nonce, lock, op, sendable, quiet, issued, sent, sinceReset >>
  /\ UNCHANGED ghost

\* ---- call_transaction --------------------------------------------------
CallCall(t) ==
  \E c \in ContractNames :
    Enter(t, DispatchOp("call_transaction", c), "resolve_lookup")

\* result = self.call_tx(self.build_call_tx(...)): a read on the node
CallRpc(t) ==
  /\ pc[t] = "call_rpc"
  /\ called' = called \cup { cur[t] }
  /\ \E out \in CallTxOutcomes :
       IF out = "raise"
         THEN Leave(t, RaisedWith("RpcError"))
         ELSE /\ pc' = [pc EXCEPT ![t] = "call_decode"]
              /\ UNCHANGED << result, local, tmp >>
  /\ UNCHANGED << nonce, lock, op, tx, sendable, quiet, issued, sent,
                  sinceReset >>
  /\ UNCHANGED << started, seen, contract, afterReset >>

\* the second lookup and decode_output_data(result)
CallDecode(t) ==
  /\ pc[t] = "call_decode"
  /\ contract' = [contract EXCEPT ![t] = GetContractByName(op[t].contract_name)]
  /\ Leave(t, Returned(None, NoHash))
  /\ UNCHANGED << nonce, lock, op, tx, sendable, quiet, issued, sent,
                  sinceReset >>
  /\ UNCHANGED << started, seen, afterReset, called >>

\* ---- the manager under concurrent callers -------------------------------
Next ==
  \E t \in Threads :
    \/ CallIssue(t)
    \/ IssueAcquire(t)
    \/ IssueRead(t)
    \/ IssueLoad(t)
    \/ IssueStore(t)
    \/ IssueRelease(t)
    \/ CallReset(t)
    \/ ResetAcquire(t)
    \/ ResetRpc(t)
    \/ ResetStore(t)
    \/ ResetRelease(t)
    \/ CallReturn(t)
    \/ ReturnLoad(t)
    \/ ReturnStore(t)
    \/ \E resend \in BOOLEAN : CallSend(t, resend)
    \/ SendResolve(t)
    \/ SendStamp(t)
    \/ SendSubmit(t)
    \/ CallResend(t)
    \/ ResendBoost(t)
    \/ ResendSubmit(t)

Spec == Init /\ [][Next]_vars

\* ---- concurrent issue_nonce calls only ----------------------------------
NextIssue ==
  \E t \in Threads :
    \/ CallIssue(t)
    \/ IssueAcquire(t)
    \/ IssueRead(t)
    \/ IssueLoad(t)
    \/ IssueStore(t)
    \/ IssueRelease(t)

SpecIssue == Init /\ [][NextIssue]_vars

\* ---- concurrent send_transaction calls only -----------------------------
NextSend ==
  \E t \in Threads :
    \/ \E resend \in BOOLEAN : CallSend(t, resend)
    \/ SendResolve(t)
    \/ IssueAcquire(t)
    \/ IssueRead(t)
    \/ IssueLoad(t)
    \/ IssueStore(t)
    \/ IssueRelease(t)
    \/ SendStamp(t)
    \/ SendSubmit(t)

SpecSend == Init /\ [][NextSend]_vars

\* ---- the ledger alone: issue, reset and rollback, one call more ----------
LedgerCalls == MaxCalls + 1

LedgerIssue(t) ==
  EnterWithin(t, Op("issue_nonce", FALSE), "issue_acquire", LedgerCalls)
LedgerReset(t) ==
  EnterWithin(t, Op("reset_nonce", FALSE), "reset_acquire", LedgerCalls)
LedgerReturn(t) ==
  EnterWithin(t, Op("return_nonce", FALSE), "return_load", LedgerCalls)

NextLedger ==
  \E t \in Threads :
    \/ LedgerIssue(t)
    \/ IssueAcquire(t)
    \/ IssueRead(t)
    \/ IssueLoad(t)
    \/ IssueStore(t)
    \/ IssueRelease(t)
    \/ LedgerReset(t)
    \/ ResetAcquire(t)
    \/ ResetRpc(t)
    \/ ResetStore(t)
    \/ ResetRelease(t)
    \/ LedgerReturn(t)
    \/ ReturnLoad(t)
    \/ ReturnStore(t)

SpecLedger == Init /\ [][NextLedger]_vars

\* ---- sends and resets against a chain that counts accepted sends --------
ChainCalls == MaxCalls + 1

\* what the reader reports when the chain has counted every accepted send
ChainNonce == v0 + Cardinality({ s \in sent : s.ok })

ChainSend(t) ==
  \E resend \in BOOLEAN :
    EnterWithin(t, Op("send_transaction", resend), "send_resolve", ChainCalls)
ChainReset(t) ==
  EnterWithin(t, Op("reset_nonce", FALSE), "reset_acquire", ChainCalls)

\* eth_get_user_nonce(address) on that chain: its count, or the call raises
ResetRpcChain(t) ==
  /\ pc[t] = "reset_rpc"
  /\ \/ /\ tmp' = [tmp EXCEPT ![t] = ChainNonce]
        /\ pc' = [pc EXCEPT ![t] = "reset_store"]
        /\ UNCHANGED << result, local >>
     \/ Leave(t, Raised)
  /\ UNCHANGED << nonce, lock, op, tx, sendable, quiet, issued, sent,
                  sinceReset >>
  /\ UNCHANGED ghost

NextChain ==
  \E t \in Threads :
    \/ ChainSend(t)
    \/ SendResolve(t)
    \/ IssueAcquire(t)
    \/ IssueRead(t)
    \/ IssueLoad(t)
    \/ IssueStore(t)
    \/ IssueRelease(t)
    \/ SendStamp(t)
    \/ SendSubmit(t)
    \/ ChainReset(t)
    \/ ResetAcquire(t)
    \/ ResetRpcChain(t)
    \/ ResetStore(t)
    \/ ResetRelease(t)

SpecChain == Init /\ [][NextChain]_vars

\* ---- the dispatcher: build, call, send and resend ------------------------
NextDispatch ==
  \E t \in Threads :
    \/ CallBuild(t)
    \/ CallCall(t)
    \/ ResolveLookup(t)
    \/ ResolveEncode(t)
    \/ BuildReturn(t)
    \/ CallRpc(t)
    \/ CallDecode(t)
    \/ \E resend \in BOOLEAN : CallSend(t, resend)
    \/ SendResolve(t)
    \/ IssueAcquire(t)
    \/ IssueRead(t)
    \/ IssueLoad(t)
    \/ IssueStore(t)
    \/ IssueRelease(t)
    \/ SendStamp(t)
    \/ SendSubmit(t)
    \/ CallResend(t)
    \/ ResendBoost(t)
    \/ ResendSubmit(t)

SpecDispatch == Init /\ [][NextDispatch]_vars

\* ---- what the properties speak of ---------------------------------------
AllIdle == \A t \in Threads : pc[t] = "idle"
IssuedValues == { p[2] : p \in issued }
IssuedBy(c) == { p \in issued : p[1] = c }

\* thread t's last call was method m and has ended
Ended(t, m) == op[t].name = m /\ pc[t] = "idle"

\* the submission made by thread t's last call, if it made one
SubmittedBy(t) == { s \in sent : s.call = cur[t] }
SubmitFailed(t) == \E s \in SubmittedBy(t) : ~s.ok

\* C1: when only issue_nonce calls run on a manager whose counter started at
\* v0, then once N calls have returned and none is running, the values they
\* returned are exactly v0, ..., v0+N-1, each once, and the counter is v0+N.
C1_IssueExactRange ==
  /\ Cardinality(IssuedValues) = Cardinality(issued)
  /\ AllIdle =>
       LET n == Cardinality(issued) IN
       /\ n = calls
       /\ IssuedValues = v0 .. (v0 + n - 1)
       /\ nonce = v0 + n

\* two threads have each made a call and both have returned, the higher
\* thread's call having got the lower value
C1_Witness ==
  /\ AllIdle
  /\ Cardinality(issued) = 2
  /\ \E t, u \in Threads :
       /\ t < u
       /\ << << u, 1 >>, v0 >> \in issued
       /\ << << t, 1 >>, v0 + 1 >> \in issued

\* C2: when only send_transaction calls run, any two submissions made by
\* different calls carry different nonces, and every submission carries one.
C2_SentNoncesDistinct ==
  /\ \A a \in sent : a.nonce # None
  /\ \A a, b \in sent : a.call # b.call => a.nonce # b.nonce

\* two threads have each submitted a transaction, the higher thread's
\* carrying the lower nonce
C2_Witness ==
  \E a, b \in sent :
    /\ a.call[1] < b.call[1]
    /\ a.nonce = Some(v0 + 1)
    /\ b.nonce = Some(v0)

\* C3: a send_transaction call whose transaction was reported not sendable
\* returns the descriptor with the zero hash, has issued no nonce, made no
\* submission, and (no other thread having stored the counter meanwhile)
\* leaves the counter at the value it had when the call started.
C3_NotSendableNoNonce ==
  \A t \in Threads :
    (Ended(t, "send_transaction") /\ ~sendable[t]) =>
      /\ result[t] = Returned(tx[t].nonce, ZeroHash)
      /\ IssuedBy(cur[t]) = {}
      /\ SubmittedBy(t) = {}
      /\ quiet[t] => nonce = pre[t].nonce

\* a not-sendable send has returned after an earlier call moved the counter
C3_Witness ==
  \E t \in Threads :
    /\ Ended(t, "send_transaction") /\ ~sendable[t]
    /\ quiet[t]
    /\ nonce # v0
    /\ result[t].hash = ZeroHash

\* C4: a send_transaction call whose submission failed returns normally, with
\* the descriptor and the zero hash.
C4_SendFailureReturnsZero ==
  \A t \in Threads :
    (Ended(t, "send_transaction") /\ SubmitFailed(t)) =>
      result[t] = Returned(tx[t].nonce, ZeroHash)

\* a send whose submission failed has returned
C4_Witness ==
  \E t \in Threads :
    /\ Ended(t, "send_transaction") /\ SubmitFailed(t)
    /\ result[t].kind = "returned"

\* C5: a resend_transaction call on a descriptor that carried a nonce submits
\* it once with that nonce, leaves the descriptor's nonce as it was, issues no
\* nonce, and (no other thread having stored the counter meanwhile) leaves
\* the counter at the value it had when the call started; this whether the
\* submission succeeded or failed.
C5_ResendKeepsNonce ==
  \A t \in Threads :
    (Ended(t, "resend_transaction") /\ pre[t].txNonce # None) =>
      /\ tx[t].nonce = pre[t].txNonce
      /\ Cardinality(SubmittedBy(t)) = 1
      /\ \A s \in SubmittedBy(t) : s.via = "resend" /\ s.nonce = pre[t].txNonce
      /\ IssuedBy(cur[t]) = {}
      /\ quiet[t] => nonce = pre[t].nonce

\* a thread has sent a transaction and resent it, the resubmission failing
C5_Witness ==
  \E t \in Threads :
    /\ Ended(t, "resend_transaction") /\ pre[t].txNonce # None
    /\ quiet[t]
    /\ result[t].kind = "raised"
    /\ \E s \in sent : s.call[1] = t /\ s.via = "send"

\* C6: an issue_nonce call that reads the counter when the last store to it
\* was a reset_nonce's (no issue and no rollback stored it since) returns the
\* value the chain-state reader reported to that reset.
C6_ResetThenIssue ==
  \A t \in Threads :
    (Ended(t, "issue_nonce") /\ seen[t] # None) =>
      result[t] = Returned(seen[t], NoHash)

\* reset_nonce then issue_nonce, the reader having reported a value other
\* than the one the counter started with
C6_Witness ==
  \E t \in Threads :
    /\ Ended(t, "issue_nonce") /\ seen[t] # None
    /\ seen[t] # Some(v0)
    /\ result[t].value = seen[t]

\* C7: a send_transaction call whose submission failed has issued exactly one
\* nonce and not given it back: no other thread having stored the counter
\* meanwhile, the counter is one more than when the call started, and so
\* greater than the nonce stamped on the failed transaction.
C7_FailedSendKeepsNonce ==
  \A t \in Threads :
    (Ended(t, "send_transaction") /\ SubmitFailed(t)) =>
      /\ Cardinality(IssuedBy(cur[t])) = 1
      /\ \A p \in IssuedBy(cur[t]) : tx[t].nonce = Some(p[2])
      /\ quiet[t] =>
           /\ nonce = pre[t].nonce + 1
           /\ tx[t].nonce = Some(pre[t].nonce)
           /\ nonce > tx[t].nonce[1]

\* a send whose submission failed has returned, nobody else having stored
\* the counter during the call
C7_Witness ==
  \E t \in Threads :
    /\ Ended(t, "send_transaction") /\ SubmitFailed(t)
    /\ quiet[t]
    /\ nonce = pre[t].nonce + 1

\* C8 (as claimed): resend_transaction on a descriptor that carries a nonce
\* always returns a (descriptor, hash) pair, the zero hash when the
\* resubmission failed.
C8_ResendAlwaysReturns ==
  \A t \in Threads :
    (Ended(t, "resend_transaction") /\ pre[t].txNonce # None) =>
      /\ result[t].kind = "returned"
      /\ SubmitFailed(t) => result[t].hash = ZeroHash

\* C9 (as claimed): send_transaction with resend set, on a descriptor that
\* carries a nonce, issues no nonce and leaves the descriptor's nonce alone.
C9_ResendFlagKeepsNonce ==
  \A t \in Threads :
    (Ended(t, "send_transaction") /\ op[t].resend /\ pre[t].txNonce # None) =>
      /\ tx[t].nonce = pre[t].txNonce
      /\ IssuedBy(cur[t]) = {}

\* a thread is between its first read and its last write of the counter
InCriticalSection(t) ==
  pc[t] \in { "issue_read", "issue_load", "issue_store", "issue_release",
              "reset_rpc", "reset_store", "reset_release", "return_store" }

\* C10 (as claimed): no two threads are inside the read-modify-write of
\* issue_nonce, reset_nonce or return_nonce at once.
C10_MutualExclusion ==
  \A t, u \in Threads :
    t # u => ~(InCriticalSection(t) /\ InCriticalSection(u))

\* C11 (as claimed): a thread waiting in issue_nonce for the lock can always
\* go on at some point: the lock is free, or its holder is still inside the
\* locked section it will release at the end of.
C11_IssueNeverBlockedForever ==
  \A t \in Threads :
    pc[t] = "issue_acquire" =>
      \/ lock = None
      \/ \E u \in Threads : lock = Some(u) /\ InCriticalSection(u)

\* thread t takes a step of method m
StepOf(t, m) == op'[t].name = m /\ << pc[t], result[t] >> # << pc'[t], result'[t] >>

C13_FailedSendRollsBack ==
  \A t \in Threads :
    (Ended(t, "send_transaction") /\ SubmitFailed(t)) =>
      /\ result[t].hash = ZeroHash
      /\ quiet[t] => nonce = pre[t].nonce

\* C13 (amended): send_transaction never runs the rollback, and a call whose
\* submission failed returns the zero hash with the issued nonce consumed:
\* no other thread having stored the counter meanwhile, the counter is one
\* above the value it had when the call started.
C13_FailedSendConsumesNonce ==
  \A t \in Threads :
    /\ op[t].name = "send_transaction" => pc[t] \notin {"return_load", "return_store"}
    /\ (Ended(t, "send_transaction") /\ SubmitFailed(t)) =>
         /\ result[t].hash = ZeroHash
         /\ quiet[t] => nonce = pre[t].nonce + 1

\* a send whose submission failed has returned the zero hash and the counter
\* is still above its value at the start of the call
C13_Witness ==
  \E t \in Threads :
    /\ Ended(t, "send_transaction") /\ SubmitFailed(t)
    /\ result[t].hash = ZeroHash
    /\ quiet[t] /\ nonce > pre[t].nonce

\* thread t's last call was a build or a call naming an unregistered contract
UnknownName(t) ==
  /\ op[t].name \in {"build_transaction", "call_transaction"}
  /\ op[t].contract_name \notin Registered

\* C14 (as claimed): a build_transaction or call_transaction naming a contract
\* that is not registered ends with an UnknownContract error, the counter
\* untouched and nothing handed to the node.
C14_UnknownContractError ==
  \A t \in Threads :
    (UnknownName(t) /\ pc[t] = "idle") =>
      /\ result[t] = RaisedWith("UnknownContract")
      /\ IssuedBy(cur[t]) = {} /\ SubmittedBy(t) = {} /\ cur[t] \notin called
      /\ quiet[t] => nonce = pre[t].nonce

\* what does hold of such a call: it ends by raising, the counter untouched
\* and nothing handed to the node
C14_UnknownContractFrame ==
  \A t \in Threads :
    (UnknownName(t) /\ pc[t] = "idle") =>
      /\ result[t].kind = "raised"
      /\ IssuedBy(cur[t]) = {} /\ SubmittedBy(t) = {} /\ cur[t] \notin called
      /\ quiet[t] => nonce = pre[t].nonce

\* C15 (as claimed): with issue_nonce and return_nonce calls only, once all
\* have ended the counter is its first value plus the number of issues minus
\* the number of rollbacks.
C15_IssueReturnBalance ==
  (AllIdle /\ ~usedReset) =>
    nonce = v0 + Cardinality(issued) - (calls - Cardinality(issued))

\* C16: once reset_nonce has stored the reported value c, and until a
\* rollback stores, the values returned by the issue_nonce calls completing
\* after that store are distinct and lie in c .. c+k-1 for k such calls; when
\* nobody holds the lock they are exactly c, ..., c+k-1 and the counter is c+k.
C16_ResetIssueAtomic ==
  (afterReset.c # None /\ afterReset.clean) =>
    LET c == afterReset.c[1]
        k == afterReset.n
    IN /\ afterReset.got \subseteq c .. (c + k - 1)
       /\ lock = None => /\ afterReset.got = c .. (c + k - 1)
                         /\ nonce = c + k

\* two issue_nonce calls have completed after a reset stored, no rollback
C16_Witness ==
  /\ afterReset.c # None /\ afterReset.clean
  /\ afterReset.n = 2
  /\ lock = None
  /\ nonce = afterReset.c[1] + 2

\* positions inside issue_nonce, and the stamping that follows it in a send
IssuePcs ==
  { "issue_acquire", "issue_read", "issue_load", "issue_store",
    "issue_release", "send_stamp" }

\* C17: among build, call, send and resend, a build_transaction or a
\* call_transaction is never inside issue_nonce, never holds the lock, issues
\* no nonce, submits nothing and (no other thread having stored the counter
\* meanwhile) leaves the counter as it was when the call started; a nonce is
\* issued only by a send_transaction that was reported sendable, and that
\* call is inside issue_nonce only before its submission.
C17_OnlySendIssues ==
  \A t \in Threads :
    /\ op[t].name \in {"build_transaction", "call_transaction"} =>
         /\ pc[t] \notin IssuePcs
         /\ lock # Some(t)
         /\ IssuedBy(cur[t]) = {}
         /\ SubmittedBy(t) = {}
         /\ quiet[t] => nonce = pre[t].nonce
    /\ (IssuedBy(cur[t]) # {} \/ pc[t] \in IssuePcs) =>
         /\ op[t].name = "send_transaction"
         /\ sendable[t]
    /\ pc[t] \in IssuePcs => SubmittedBy(t) = {}
    /\ (op[t].name = "send_transaction" /\ SubmittedBy(t) # {}) =>
         Cardinality(IssuedBy(cur[t])) = 1

\* after a send has issued a nonce and submitted, a build or a call has run
\* to its end and the counter is where that call found it
C17_Witness ==
  \E t, u \in Threads :
    /\ op[t].name \in {"build_transaction", "call_transaction"}
    /\ pc[t] = "idle" /\ result[t].kind = "returned"
    /\ quiet[t] /\ nonce = pre[t].nonce
    /\ SubmittedBy(u) # {} /\ IssuedBy(cur[u]) # {}
    /\ nonce > v0

\* C18: a send_transaction call hands its descriptor to send_tx at most once,
\* once it has ended exactly once if it was sendable and not at all if not;
\* a resend_transaction call that has ended has handed it over exactly once;
\* no hand-over is a second try.
C18_SubmitsOnce ==
  /\ \A s \in sent : s.try = 1
  /\ \A t \in Threads :
       /\ Cardinality(SubmittedBy(t)) <= 1
       /\ Ended(t, "send_transaction") =>
            Cardinality(SubmittedBy(t)) = IF sendable[t] THEN 1 ELSE 0
       /\ Ended(t, "resend_transaction") => Cardinality(SubmittedBy(t)) = 1

\* a send whose only submission failed has ended, and a resend has ended
C18_Witness ==
  \E t, u \in Threads :
    /\ Ended(t, "send_transaction") /\ sendable[t]
    /\ SubmitFailed(t) /\ Cardinality(SubmittedBy(t)) = 1
    /\ Ended(u, "resend_transaction") /\ Cardinality(SubmittedBy(u)) = 1

\* C19 (as claimed): with send_transaction and reset_nonce calls only, the
\* reader reporting the first nonce plus the number of accepted submissions,
\* the submissions of two different calls never carry the same nonce.
C19_NoNonceReuse ==
  \A s1, s2 \in sent : s1.call # s2.call => s1.nonce # s2.nonce
====
